---- MODULE Spec2Model ----
(***************************************************************************)
(* Panel perforation layout of src/main.py: calculate_layout_params and    *)
(* the drawing loop of the generate_dxf endpoint.                          *)
(*                                                                         *)
(* Lengths are fixed-point numbers: Unit steps per millimetre.  Every      *)
(* quantity the code halves (pitch_x, the pattern extents) is a multiple   *)
(* of four steps, so that /2 is exact, as it is on binary floats.  The two *)
(* irrational values of the diamond preset (math.sqrt(2) times 15.1 and    *)
(* times 10) are rounded down to that grid.                                *)
(*                                                                         *)
(* Not modelled: the DXF document, the outline rectangle, the file name,   *)
(* bent_top, corner_radius and customer, none of which reaches the layout  *)
(* or the positions of the drawn shapes.                                   *)
(***************************************************************************)
EXTENDS Integers, FiniteSets

VARIABLES pc, raw_pattern, length, width, layout, hole_w, hole_h, y, row,
          shapes, response

vars == <<pc, raw_pattern, length, width, layout, hole_w, hole_h, y, row,
          shapes, response>>

\* Fixed-point resolution: steps per millimetre.
Unit == 100000

\* Largest sheet length and width (mm) of a request to a non-grouped preset.
MaxLength == 140
MaxWidth == 70
\* Largest sheet length (mm) of a request to the grouped preset.
MaxGroupedLength == 920

\* payload.get("length", 500), payload.get("width", 300)
DefaultLength == 500
DefaultWidth == 300

Abs(x) == IF x < 0 THEN 0 - x ELSE x

\* x * math.sqrt(2), for x a multiple of 0.1 mm, on the grid of four steps.
Sqrt2Times(x) == 4 * (((x \div (Unit \div 10)) * 1414214) \div 400)

NoGrouping == [col_count |-> 0, gap_size |-> 0]

PATTERN_MAP ==
  [n \in {"Squares 10x10mm", "Squares Grouped", "Check 10x10mm",
          "Round hole 10mm", "Slotted hole 35x10mm"} |->
    CASE n = "Squares 10x10mm" ->
           [pattern |-> "square", hole_size |-> 10 * Unit, spacing |-> 10 * Unit,
            offset |-> "half", grouping |-> NoGrouping]
      [] n = "Squares Grouped" ->
           [pattern |-> "square", hole_size |-> 10 * Unit, spacing |-> 10 * Unit,
            offset |-> "none",
            grouping |-> [col_count |-> 8, gap_size |-> 70 * Unit]]
      [] n = "Check 10x10mm" ->
           [pattern |-> "diamond", hole_size |-> 10 * Unit,
            spacing |-> (51 * Unit) \div 10,
            offset |-> "half", grouping |-> NoGrouping]
      [] n = "Round hole 10mm" ->
           [pattern |-> "circle", hole_diameter |-> 10 * Unit,
            spacing |-> 10 * Unit,
            offset |-> "half", grouping |-> NoGrouping]
      [] n = "Slotted hole 35x10mm" ->
           [pattern |-> "slot", slot_length |-> 35 * Unit,
            slot_width |-> 10 * Unit, spacing |-> 10 * Unit,
            offset |-> "half", grouping |-> NoGrouping]]

\* cfg = PATTERN_MAP.get(raw_pattern, PATTERN_MAP["Squares 10x10mm"])
Cfg(raw) ==
  IF raw \in DOMAIN PATTERN_MAP THEN PATTERN_MAP[raw]
  ELSE PATTERN_MAP["Squares 10x10mm"]

HasGrouping(cfg) == cfg.grouping # NoGrouping

\* Variant: the margin floor set one millimetre too low.
TARGET_MIN_MARGIN_Low == 16 * Unit

TARGET_MIN_MARGIN == 17 * Unit

\* Step 1 of calculate_layout_params: the standard pitch.
StandardPitch(item_size, spacing, pattern_type) ==
  IF pattern_type = "diamond"
  THEN LET px == Sqrt2Times(item_size + spacing) IN
       [pitch_x |-> px, pitch_y |-> px \div 2, stagger_x |-> px \div 2,
        bounding_size |-> Sqrt2Times(item_size)]
  ELSE LET px == item_size + spacing IN
       [pitch_x |-> px,
        pitch_y |-> IF pattern_type = "slot" THEN 10 * Unit + spacing
                    ELSE item_size + spacing,
        stagger_x |-> px \div 2,
        bounding_size |-> item_size]

\* One candidate of the column search: n_groups and margin for c columns.
Candidate(c, sheet_length, item_size, spacing, base_gap) ==
  LET g_width == (c * item_size) + ((c - 1) * spacing)
      g_stride == g_width + base_gap
      n0 == (sheet_length + base_gap) \div g_stride
      n_groups == IF n0 < 1 THEN 1 ELSE n0
      pat_width == (n_groups * g_width) + ((n_groups - 1) * base_gap)
  IN [g_width |-> g_width, g_stride |-> g_stride, n_groups |-> n_groups,
      margin |-> (sheet_length - pat_width) \div 2]

\* The hard lower limit and the sweet spot of the grouped margin.
HardLimit == 20 * Unit
SweetSpot == 35 * Unit

\* The search variables before the loop.
SearchStart ==
  [best_col_count |-> 8, best_margin |-> 9999 * Unit, found_valid |-> FALSE,
   stopped |-> FALSE]

\* The body of "for c in range(8, 100)" on the search variables s; stopped
\* records that the break was taken, after which no iteration runs.
SearchBody(s, c, sheet_length, item_size, spacing, base_gap) ==
  IF s.stopped THEN s
  ELSE LET margin == Candidate(c, sheet_length, item_size, spacing, base_gap).margin
       IN IF margin < HardLimit
          THEN IF s.found_valid THEN [s EXCEPT !.stopped = TRUE] ELSE s
          ELSE IF Abs(margin - SweetSpot) < Abs(s.best_margin - SweetSpot)
               THEN [s EXCEPT !.found_valid = TRUE, !.best_margin = margin,
                              !.best_col_count = c]
               ELSE [s EXCEPT !.found_valid = TRUE]

\* The iterations c = lo .. hi of the loop, in order, from search variables s
\* (split in halves to keep the evaluation shallow; nothing runs after the
\* break).
RECURSIVE ColumnSearch(_, _, _, _, _, _, _)
ColumnSearch(s, lo, hi, sheet_length, item_size, spacing, base_gap) ==
  IF lo = hi
  THEN SearchBody(s, lo, sheet_length, item_size, spacing, base_gap)
  ELSE LET mid == (lo + hi) \div 2
           s1 == ColumnSearch(s, lo, mid, sheet_length, item_size, spacing, base_gap)
       IN IF s1.stopped THEN s1
          ELSE ColumnSearch(s1, mid + 1, hi, sheet_length, item_size, spacing,
                            base_gap)

\* best_col_count after the loop over range(8, 100).
BestColCount(sheet_length, item_size, spacing, base_gap) ==
  ColumnSearch(SearchStart, 8, 99, sheet_length, item_size, spacing,
               base_gap).best_col_count

\* The Y axis of the grouped path.
GroupedCountY(sheet_width, pitch_y) ==
  LET usable_y == sheet_width - (2 * TARGET_MIN_MARGIN)
      cy == ((usable_y - 10 * Unit) \div pitch_y) + 1
  IN IF cy < 0 THEN 0 ELSE cy

\* Step 2 of calculate_layout_params: the grouped (Q+) layout.
GroupedLayout(sheet_length, sheet_width, item_size, spacing, pattern_type, grouping) ==
  LET p == StandardPitch(item_size, spacing, pattern_type)
      base_gap == grouping.gap_size
      cols_per_group == BestColCount(sheet_length, item_size, spacing, base_gap)
      best == Candidate(cols_per_group, sheet_length, item_size, spacing, base_gap)
      count_y == GroupedCountY(sheet_width, p.pitch_y)
      total_pattern_h == 10 * Unit + ((count_y - 1) * p.pitch_y)
  IN [is_grouped |-> TRUE,
      num_groups |-> best.n_groups,
      cols_per_group |-> cols_per_group,
      group_stride |-> best.g_stride,
      pitch_x |-> p.pitch_x,
      pitch_y |-> p.pitch_y,
      margin_x |-> best.margin,
      margin_y |-> (sheet_width - total_pattern_h) \div 2,
      count_y |-> count_y,
      debug_col_count |-> cols_per_group,
      debug_margin |-> best.margin]

\* Variant: the first item is not counted.
AxisCountNoFirst(safe, pitch) == IF safe < 0 THEN 0 ELSE safe \div pitch

\* Variant: the sign of safe is dropped instead of tested.
AxisCountAbs(safe, pitch) == (Abs(safe) \div pitch) + 1

\* count = 0 if safe < 0 else floor(safe / pitch) + 1
AxisCount(safe, pitch) == IF safe < 0 THEN 0 ELSE (safe \div pitch) + 1

\* Step 3 of calculate_layout_params: the standard layout.
StandardLayout(sheet_length, sheet_width, item_size, spacing, pattern_type) ==
  LET p == StandardPitch(item_size, spacing, pattern_type)
      usable_x == sheet_length - (2 * TARGET_MIN_MARGIN)
      usable_y == sheet_width - (2 * TARGET_MIN_MARGIN)
      safe_w == usable_x - p.bounding_size - p.stagger_x
      count_x == AxisCount(safe_w, p.pitch_x)
      item_h == IF pattern_type = "slot" THEN 10 * Unit ELSE p.bounding_size
      safe_h == usable_y - item_h
      count_y == AxisCount(safe_h, p.pitch_y)
      total_pattern_w == p.bounding_size + ((count_x - 1) * p.pitch_x) + p.stagger_x
      total_pattern_h == item_h + ((count_y - 1) * p.pitch_y)
  IN [is_grouped |-> FALSE,
      count_x |-> count_x,
      count_y |-> count_y,
      pitch_x |-> p.pitch_x,
      pitch_y |-> p.pitch_y,
      margin_x |-> (sheet_length - total_pattern_w) \div 2,
      margin_y |-> (sheet_width - total_pattern_h) \div 2]

calculate_layout_params(sheet_length, sheet_width, item_size, spacing, pattern_type, grouping) ==
  IF grouping # NoGrouping
  THEN GroupedLayout(sheet_length, sheet_width, item_size, spacing,
                     pattern_type, grouping)
  ELSE StandardLayout(sheet_length, sheet_width, item_size, spacing, pattern_type)

\* generate_dxf, "1. Base Hole Size": hole_base and the hole box before the
\* diamond adjustment.
HoleBase(cfg) ==
  CASE cfg.pattern \in {"square", "diamond"} -> cfg.hole_size
    [] cfg.pattern = "circle" -> cfg.hole_diameter
    [] cfg.pattern = "slot" -> cfg.slot_length
    [] OTHER -> 10 * Unit

\* hole_w and hole_h as the drawing loop sees them.
HoleW(cfg) ==
  IF cfg.pattern = "diamond" THEN Sqrt2Times(HoleBase(cfg)) ELSE HoleBase(cfg)

HoleH(cfg) ==
  CASE cfg.pattern = "diamond" -> Sqrt2Times(HoleBase(cfg))
    [] cfg.pattern = "slot" -> cfg.slot_width
    [] OTHER -> HoleBase(cfg)

\* layout of a request, as generate_dxf calls calculate_layout_params.
LayoutOf(raw, l, w) ==
  LET cfg == Cfg(raw) IN
  calculate_layout_params(l * Unit, w * Unit, HoleBase(cfg), cfg.spacing, cfg.pattern,
                          cfg.grouping)

\* row_offset of the drawing loop.
RowOffset(offset_mode, r, pitch_x) ==
  IF offset_mode = "half" /\ r % 2 # 0 THEN pitch_x \div 2 ELSE 0

\* The x positions drawn in one row of a grouped layout.
GroupedRowXs(lay, pattern) ==
  IF pattern = "square"
  THEN {lay.margin_x + (g * lay.group_stride) + (c * lay.pitch_x) :
          g \in 0 .. (lay.num_groups - 1), c \in 0 .. (lay.cols_per_group - 1)}
  ELSE {}

\* Variant: a shape is skipped when it passes the right edge of the even rows,
\* which drops the last column of every staggered row.
StandardRowXsDropLast(lay, row_offset, hw, sheet_length) ==
  {x \in {lay.margin_x + row_offset + (c * lay.pitch_x) : c \in 0 .. (lay.count_x - 1)} :
     ~(x + hw > sheet_length - lay.margin_x - row_offset)}

\* The x positions drawn in one row of a standard layout.
StandardRowXs(lay, row_offset, hw, sheet_length) ==
  {x \in {lay.margin_x + row_offset + (c * lay.pitch_x) : c \in 0 .. (lay.count_x - 1)} :
     ~(x + hw > sheet_length)}

\* Sheet sizes (mm) a request to preset raw may carry.
Lengths(raw) ==
  (0 .. (IF HasGrouping(Cfg(raw)) THEN MaxGroupedLength ELSE MaxLength))
  \cup {DefaultLength}

Widths == (0 .. MaxWidth) \cup {DefaultWidth}

\* Pattern names a request may carry: the presets and a name that is none.
RawPatterns == DOMAIN PATTERN_MAP \cup {"Unknown"}

NoLayout == [is_grouped |-> FALSE, count_x |-> 0, count_y |-> 0, pitch_x |-> 0,
             pitch_y |-> 0, margin_x |-> 0, margin_y |-> 0]
NoResponse == [status |-> "none"]

Init ==
  /\ pc = "idle"
  /\ raw_pattern = "Squares 10x10mm"
  /\ length = 0
  /\ width = 0
  /\ layout = NoLayout
  /\ hole_w = 0
  /\ hole_h = 0
  /\ y = 0
  /\ row = 0
  /\ shapes = {}
  /\ response = NoResponse

\* generate_dxf up to the drawing loop: the payload is read, the layout is
\* calculated and the loop variables are set.
GenerateDxf(raw, l, w) ==
  /\ pc' = "draw"
  /\ raw_pattern' = raw
  /\ length' = l * Unit
  /\ width' = w * Unit
  /\ layout' = LayoutOf(raw, l, w)
  /\ hole_w' = HoleW(Cfg(raw))
  /\ hole_h' = HoleH(Cfg(raw))
  /\ y' = layout'.margin_y
  /\ row' = 0
  /\ shapes' = {}
  /\ response' = NoResponse

\* One iteration of "while row < count_y".
DrawRow ==
  /\ pc = "draw"
  /\ row < layout.count_y
  /\ LET cfg == Cfg(raw_pattern)
         row_offset == RowOffset(cfg.offset, row, layout.pitch_x)
         xs == IF layout.is_grouped
               THEN GroupedRowXs(layout, cfg.pattern)
               ELSE StandardRowXs(layout, row_offset, hole_w, length)
     IN shapes' = shapes \cup {[row |-> row, x |-> x, y |-> y] : x \in xs}
  /\ y' = y + layout.pitch_y
  /\ row' = row + 1
  /\ UNCHANGED <<pc, raw_pattern, length, width, layout, hole_w, hole_h, response>>

\* The loop ends; the drawing is saved and the response returned.
Respond ==
  /\ pc = "draw"
  /\ ~(row < layout.count_y)
  /\ pc' = "done"
  /\ response' = [status |-> "ok",
                  chosen_columns |-> IF layout.is_grouped
                                     THEN layout.debug_col_count ELSE 0,
                  final_margin |-> IF layout.is_grouped
                                   THEN layout.debug_margin ELSE 0]
  /\ UNCHANGED <<raw_pattern, length, width, layout, hole_w, hole_h, y, row, shapes>>

\* A request arrives: its pattern name and sheet size are the inputs.
Request ==
  /\ pc = "idle"
  /\ \E raw \in RawPatterns : \E l \in Lengths(raw) : \E w \in Widths :
       GenerateDxf(raw, l, w)

Next == Request \/ DrawRow \/ Respond

Spec == Init /\ [][Next]_vars

-----------------------------------------------------------------------------
(* Vocabulary of the properties. *)

Done == pc = "done"

MinOf(S) == CHOOSE a \in S : \A b \in S : a <= b
MaxOf(S) == CHOOSE a \in S : \A b \in S : a >= b

RowShapes(r) == {s \in shapes : s.row = r}

\* Columns per row of a layout.
Cols(lay) ==
  IF lay.is_grouped THEN lay.num_groups * lay.cols_per_group ELSE lay.count_x

\* The margin of every columns-per-group value 8..99 for the current sheet.
MarginTable ==
  LET cfg == Cfg(raw_pattern) IN
  [c \in 8 .. 99 |->
     Candidate(c, length, HoleBase(cfg), cfg.spacing, cfg.grouping.gap_size).margin]

\* The columns-per-group value an exhaustive search over 8..99 returns: margin
\* at least 20, closest to 35, smallest on ties.
ExhaustiveBest(m) ==
  LET V == {c \in DOMAIN m : m[c] >= 20 * Unit}
  IN CHOOSE c \in V : \A d \in V :
       \/ Abs(m[c] - 35 * Unit) < Abs(m[d] - 35 * Unit)
       \/ Abs(m[c] - 35 * Unit) = Abs(m[d] - 35 * Unit) /\ c <= d

\* C1: every drawn shape has its bounding box inside the sheet.
ShapesInsideSheet ==
  \A s \in shapes :
    /\ 0 <= s.x /\ s.x + hole_w <= length
    /\ 0 <= s.y /\ s.y + hole_h <= width

\* C2: a returned margin is not below the floor: in the standard layout
\* count_x >= 1 implies margin_x >= 17 and count_y >= 1 implies margin_y >= 17;
\* in the grouped layout count_y >= 1 implies margin_y >= 17, and margin_x >= 20
\* whenever some columns-per-group value in 8..99 has a margin >= 20.
MarginFloor ==
  Done =>
    IF layout.is_grouped
    THEN /\ layout.count_y >= 1 => layout.margin_y >= 17 * Unit
         /\ (\E c \in 8 .. 99 : MarginTable[c] >= 20 * Unit)
              => layout.margin_x >= 20 * Unit
    ELSE /\ layout.count_x >= 1 => layout.margin_x >= 17 * Unit
         /\ layout.count_y >= 1 => layout.margin_y >= 17 * Unit

\* C2 witness: a finished standard layout with shapes on both axes whose X
\* margin is exactly the floor.
MarginFloorWitness ==
  /\ Done /\ ~layout.is_grouped
  /\ layout.count_x >= 1 /\ layout.count_y >= 1
  /\ layout.margin_x = 17 * Unit
  /\ shapes # {}

\* C3: when at least two columns and one row are drawn, the drawing is centred:
\* the left gap equals the right gap and the bottom gap equals the top gap.
Centered ==
  (Done /\ \E r \in 0 .. (row - 1) : Cardinality(RowShapes(r)) >= 2) =>
    /\ MinOf({s.x : s \in shapes}) = length - (MaxOf({s.x : s \in shapes}) + hole_w)
    /\ MinOf({s.y : s \in shapes}) = width - (MaxOf({s.y : s \in shapes}) + hole_h)

\* C4: a sheet too small for one shape plus twice the margin floor on some axis
\* is not answered with an "ok" response.
SheetTooSmallReported ==
  (Done /\ (length < hole_w + 34 * Unit \/ width < hole_h + 34 * Unit)) =>
    response.status # "ok"

\* C5 as claimed: the columns per row (count_x, or num_groups * cols_per_group)
\* of a sheet one millimetre shorter are not more, and count_y of a sheet one
\* millimetre narrower is not more (monotone over every pair of sizes, by
\* transitivity).
ColumnsMonotone ==
  Done =>
    /\ length >= Unit =>
         Cols(LayoutOf(raw_pattern, (length \div Unit) - 1, width \div Unit))
           <= Cols(layout)
    /\ width >= Unit =>
         LayoutOf(raw_pattern, length \div Unit, (width \div Unit) - 1).count_y
           <= layout.count_y

\* C5 as amended: in the standard layout count_x never decreases when the sheet
\* gets longer, and in both layouts count_y never decreases when it gets wider.
CountsMonotone ==
  Done =>
    /\ (~layout.is_grouped /\ length >= Unit) =>
         LayoutOf(raw_pattern, (length \div Unit) - 1, width \div Unit).count_x
           <= layout.count_x
    /\ width >= Unit =>
         LayoutOf(raw_pattern, length \div Unit, (width \div Unit) - 1).count_y
           <= layout.count_y

\* C5 witness: a drawn standard layout that holds one column more than the
\* sheet one millimetre shorter and one row more than the sheet one millimetre
\* narrower.
CountsMonotoneWitness ==
  /\ Done /\ ~layout.is_grouped /\ length >= Unit /\ width >= Unit
  /\ layout.count_x >= 2 /\ layout.count_y >= 2
  /\ LayoutOf(raw_pattern, (length \div Unit) - 1, width \div Unit).count_x
       = layout.count_x - 1
  /\ LayoutOf(raw_pattern, length \div Unit, (width \div Unit) - 1).count_y
       = layout.count_y - 1
  /\ Cardinality(shapes) = layout.count_x * layout.count_y

\* C6: in the grouped layout, if some columns-per-group value in 8..99 has its
\* margin in [20, 50] the returned margin_x is in [20, 50]; otherwise it is the
\* smallest margin >= 20 any value has.
BandContainment ==
  (Done /\ layout.is_grouped) =>
    LET m == MarginTable IN
    IF \E c \in 8 .. 99 : m[c] >= 20 * Unit /\ m[c] <= 50 * Unit
    THEN layout.margin_x >= 20 * Unit /\ layout.margin_x <= 50 * Unit
    ELSE (\E c \in 8 .. 99 : m[c] >= 20 * Unit) =>
           /\ layout.margin_x >= 20 * Unit
           /\ \A c \in 8 .. 99 : m[c] >= 20 * Unit => layout.margin_x <= m[c]

\* C7: for a 10 mm square or circle in the standard layout, an axis of exactly
\* 44 mm holds one shape with a margin of 17, on X as on Y.
DegenerateAxis ==
  (Done /\ ~layout.is_grouped /\ Cfg(raw_pattern).pattern \in {"square", "circle"}) =>
    /\ length = 44 * Unit => (layout.count_x = 1 /\ layout.margin_x = 17 * Unit)
    /\ width = 44 * Unit => (layout.count_y = 1 /\ layout.margin_y = 17 * Unit)

\* The sheet 500 x 300 with the 10 mm square preset, answered.
Scenario ==
  /\ Done /\ raw_pattern = "Squares 10x10mm"
  /\ length = 500 * Unit /\ width = 300 * Unit

\* C8 as claimed: on the sheet 500 x 300 the square pattern spans 466 by 266
\* and both margins are exactly 17.
ScenarioStretched ==
  Scenario =>
    /\ 10 * Unit + (layout.count_x - 1) * layout.pitch_x = 466 * Unit
    /\ layout.margin_x = 17 * Unit
    /\ 10 * Unit + (layout.count_y - 1) * layout.pitch_y = 266 * Unit
    /\ layout.margin_y = 17 * Unit

\* C8 as amended: on the sheet 500 x 300 the square preset keeps its pitch of
\* 20: 23 columns spanning 450 (460 with the stagger) with margin_x = 20, and
\* 13 rows spanning 250 with margin_y = 25.
ScenarioFixedPitch ==
  Scenario =>
    /\ layout.count_x = 23 /\ layout.pitch_x = 20 * Unit
    /\ 10 * Unit + (layout.count_x - 1) * layout.pitch_x = 450 * Unit
    /\ layout.margin_x = 20 * Unit
    /\ layout.count_y = 13 /\ layout.pitch_y = 20 * Unit
    /\ 10 * Unit + (layout.count_y - 1) * layout.pitch_y = 250 * Unit
    /\ layout.margin_y = 25 * Unit

\* C8 witness: the scenario is answered with all 23 x 13 squares drawn.
ScenarioWitness == Scenario /\ Cardinality(shapes) = 299

\* A row the loop offsets by half a pitch.
Staggered(r) == Cfg(raw_pattern).offset = "half" /\ r % 2 # 0

\* C9 as claimed: in a standard layout a staggered row of a diamond or slot
\* pattern holds count_x - 1 shapes and every other row holds count_x.
StaggerRowDrops ==
  (pc \in {"draw", "done"} /\ ~layout.is_grouped /\ layout.count_x >= 1) =>
    \A r \in 0 .. (row - 1) :
      Cardinality(RowShapes(r)) =
        IF Staggered(r) /\ Cfg(raw_pattern).pattern \in {"diamond", "slot"}
        THEN layout.count_x - 1
        ELSE layout.count_x

\* C9 as amended: in a standard layout every drawn row, staggered or not, of
\* every pattern holds count_x shapes.
EveryRowFull ==
  (pc \in {"draw", "done"} /\ ~layout.is_grouped) =>
    \A r \in 0 .. (row - 1) : Cardinality(RowShapes(r)) = layout.count_x

\* C9 witness: a diamond or slot drawing with a staggered row of at least two
\* shapes.
EveryRowFullWitness ==
  /\ Done /\ ~layout.is_grouped
  /\ Cfg(raw_pattern).pattern \in {"diamond", "slot"}
  /\ row >= 2 /\ layout.count_x >= 2
  /\ Cardinality(RowShapes(1)) = layout.count_x

\* C10: the grouped search returns the columns-per-group value and margin an
\* exhaustive search over 8..99 returns, whenever some value has a margin >= 20.
EarlyExitSound ==
  (Done /\ layout.is_grouped) =>
    LET m == MarginTable IN
    (\E c \in 8 .. 99 : m[c] >= 20 * Unit) =>
      /\ layout.cols_per_group = ExhaustiveBest(m)
      /\ layout.margin_x = m[ExhaustiveBest(m)]

=============================================================================
